---- MODULE Spec2Model ----
(***************************************************************************)
(* PEAKATS recruiter dashboard (src/recruiter_dashboard.py): the candidate *)
(* table, the field-scoped writes, the sidebar filter pipeline, the batch  *)
(* diff of the editable table and the detail-view actions.                 *)
(*                                                                         *)
(* Text values are sequences of one-character strings, so that strip(),    *)
(* slicing, len() and substring search are computed and not assumed.       *)
(* A nullable column holds Null (SQL NULL) or Val(v).                      *)
(***************************************************************************)
EXTENDS Integers, Sequences, FiniteSets, TLC

VARIABLES
    store,               \* the candidates table: id -> row
    now,                 \* the store's clock, read by NOW() and datetime.now()
    pred,                \* the sidebar widgets of the session
    df,                  \* load_candidates() of the last script run
    filtered_df,         \* df after the filter pipeline
    display_df,          \* the table handed to st.data_editor
    edited_df,           \* the table st.data_editor returned
    wlog,                \* the write calls issued by the last script run, in order
    changes_made,        \* the flag of the last batch diff
    selected_candidate,  \* st.session_state.selected_candidate (0 is None)
    show_detail,         \* st.session_state.show_detail
    rerun,               \* st.rerun() was called: the script runs again at once
    external,            \* the number of changes other writers made so far
    avg_rwp,             \* the "Avg RWP" metric of the last script run
    engine,              \* get_database_engine() returns an engine (not None)
    raised,              \* the exception that ended the last run or call, or ""
    client_id,           \* client view: the 'client' query parameter (<<>> is None)
    client_page,         \* client view: what the last run showed
    client_df,           \* client view: load_candidates(client_id) of the last run
    client_filtered_df,  \* client view: the rows of the table shown
    client_pred,         \* client view: the three filter selectboxes
    client_queried,      \* client view: the last run queried the store
    registry             \* client view: the 'clients' of client_registry.json

\* the state of the client view
client_vars == <<client_id, client_page, client_df, client_filtered_df,
                 client_pred, client_queried, registry>>

vars == <<store, now, pred, df, filtered_df, display_df, edited_df, wlog,
          changes_made, selected_candidate, show_detail, rerun, external,
          avg_rwp, engine, raised, client_vars>>

(***************************************************************************)
(* Bounds of the model.                                                    *)
(***************************************************************************)
NumRecs == 2      \* rows in the candidates table
MaxClock == 2     \* writes of the session per behaviour
MaxExternal == 1  \* changes by other writers per behaviour
MaxEdits == 1     \* cells the user edits in the table before a script run
MaxActive == 2    \* sidebar widgets (other than the form toggles) off default
MaxFailEdits == 2 \* edits of the table in a pass one of whose writes fails

(***************************************************************************)
(* Program constants.                                                      *)
(***************************************************************************)
NotesDisplayLen == 50   \* x[:50] + '...' if len(str(x)) > 50
RwpMin == 0             \* st.slider("RWP Score Range", 0, 10, (0, 10))
RwpMax == 10

None == 0               \* Python None in session_state.selected_candidate

Null == <<>>
Val(v) == <<v>>
\* COALESCE(col, d)
Coalesce(o, d) == IF o = Null THEN d ELSE o[1]

(***************************************************************************)
(* Text.                                                                   *)
(***************************************************************************)
Empty == <<>>
Ellipsis == <<".", ".", ".">>
NanText == <<"n", "a", "n">>
Whitespace == {" "}

\* s[:n]
Prefix(s, n) == SubSeq(s, 1, IF Len(s) < n THEN Len(s) ELSE n)

RECURSIVE LStrip(_)
LStrip(s) ==
    IF s # Empty /\ Head(s) \in Whitespace THEN LStrip(Tail(s)) ELSE s

RECURSIVE RStrip(_)
RStrip(s) ==
    IF s # Empty /\ s[Len(s)] \in Whitespace
    THEN RStrip(SubSeq(s, 1, Len(s) - 1))
    ELSE s

\* str.strip()
Strip(s) == LStrip(RStrip(s))

\* if x == 'nan': x = ''
NanToEmpty(s) == IF s = NanText THEN Empty ELSE s

\* the lower case of a letter, for the letters the model's texts use
LowerChar(c) ==
    CASE c = "A" -> "a"
      [] c = "B" -> "b"
      [] c = "F" -> "f"
      [] c = "L" -> "l"
      [] c = "N" -> "n"
      [] c = "R" -> "r"
      [] c = "X" -> "x"
      [] OTHER -> c

\* re.search(pat, text, re.IGNORECASE) for the patterns of the model: literal
\* characters and ".", which matches any one character
RegexSearch(pat, text) ==
    \E k \in 0..(Len(text) - Len(pat)) :
        \A j \in 1..Len(pat) :
            pat[j] = "." \/ LowerChar(text[k + j]) = LowerChar(pat[j])

\* Series.str.contains(pat, case=False, na=False) for one cell: pat is a
\* regular expression (regex=True is the default), a null cell is no match
Contains(cell, pat) == cell # Null /\ RegexSearch(pat, cell[1])

\* datetime.now().isoformat()
IsoFormat(t) == <<t>>

(***************************************************************************)
(* The candidates table.  The columns no code path of the recruiter view   *)
(* compares or writes (application_date, rwp_classification, resume_notes, *)
(* background_id, drug_test_id, fadv_change_details, fadv_last_updated,    *)
(* resume_filename) are left out.                                          *)
(***************************************************************************)
LongNotes == [i \in 1..(NotesDisplayLen + 1) |-> "x"]
AllText == <<"A", "l", "l">>
Cbm == <<"c", "b", "m">>
Fdx == <<"f", "d", "x">>
NewClient == <<"n", "e", "w">>

\* the client ids client_registry.json may hold: none (no file found), one
\* client, two clients one of which has no candidates; Fdx has candidates
\* and is in no registry
Registries == {{}, {Cbm}, {Cbm, NewClient}}
StatusList == <<"new", "contacted", "scheduled", "hired", "rejected">>

\* The rows an initial table is drawn from (without id, intake_date and
\* created_at).
SeedRows == <<
    [first_name |-> <<"A", "n", "n">>, last_name |-> <<"L", "e", "e">>,
     client_id |-> Cbm, email |-> Val(<<"a", "@", "x">>),
     phone |-> Val(<<"5", "5">>), fedex_id |-> Null, rwp_score |-> Val(5),
     background_status |-> Val("Clear"), drug_test_status |-> Null,
     profile_status |-> Val("Complete"), legacy_order_status |-> Null,
     recruiter_notes |-> Val(<<" ", "o", "k">>),
     gcic_uploaded |-> 0, gcic_upload_date |-> Null,
     mec_uploaded |-> 0, mec_upload_date |-> Null,
     status |-> Val("new"), fadv_change_flag |-> 1, updated_at |-> 0],
    [first_name |-> <<"B", "o", "b">>, last_name |-> <<"R", "a", "y">>,
     client_id |-> Fdx, email |-> Val(<<"b", "@", "x">>),
     phone |-> Null, fedex_id |-> Val(<<"F", "X", "1">>), rwp_score |-> Null,
     background_status |-> Null, drug_test_status |-> Val("Negative"),
     profile_status |-> Null, legacy_order_status |-> Val("Open"),
     recruiter_notes |-> Val(LongNotes),
     gcic_uploaded |-> 1, gcic_upload_date |-> Val(IsoFormat(0)),
     mec_uploaded |-> 0, mec_upload_date |-> Null,
     status |-> Val("contacted"), fadv_change_flag |-> 1, updated_at |-> 0],
    [first_name |-> <<"A", "n", "n">>, last_name |-> <<"L", "e", "e">>,
     client_id |-> Cbm, email |-> Val(<<"n", "@", "x">>),
     phone |-> Val(<<"7", "7">>), fedex_id |-> Null, rwp_score |-> Val(10),
     background_status |-> Val("Clear"), drug_test_status |-> Val("Negative"),
     profile_status |-> Val("Complete"), legacy_order_status |-> Val("Open"),
     recruiter_notes |-> Null,
     gcic_uploaded |-> 1, gcic_upload_date |-> Val(IsoFormat(0)),
     mec_uploaded |-> 1, mec_upload_date |-> Val(IsoFormat(0)),
     status |-> Null, fadv_change_flag |-> 0, updated_at |-> 0],
    [first_name |-> <<"N", "a", "n">>, last_name |-> <<"F", "o", "x">>,
     client_id |-> Fdx, email |-> Null,
     phone |-> Val(<<"5", "7">>), fedex_id |-> Val(<<"F", "X", "1">>),
     rwp_score |-> Val(0),
     background_status |-> Null, drug_test_status |-> Null,
     profile_status |-> Null, legacy_order_status |-> Null,
     recruiter_notes |-> Val(NanText),
     gcic_uploaded |-> 0, gcic_upload_date |-> Null,
     mec_uploaded |-> 1, mec_upload_date |-> Val(IsoFormat(0)),
     status |-> Val("new"), fadv_change_flag |-> 0, updated_at |-> 0] >>

\* One row of the table: a seed with its identity columns.
TableRow(id, seed) ==
    [id |-> id, intake_date |-> id, created_at |-> id,
     rwp_classification |-> Null, rwp_rationale |-> Null,
     first_name |-> seed.first_name, last_name |-> seed.last_name,
     client_id |-> seed.client_id, email |-> seed.email, phone |-> seed.phone,
     fedex_id |-> seed.fedex_id, rwp_score |-> seed.rwp_score,
     background_status |-> seed.background_status,
     drug_test_status |-> seed.drug_test_status,
     profile_status |-> seed.profile_status,
     legacy_order_status |-> seed.legacy_order_status,
     recruiter_notes |-> seed.recruiter_notes,
     gcic_uploaded |-> seed.gcic_uploaded,
     gcic_upload_date |-> seed.gcic_upload_date,
     mec_uploaded |-> seed.mec_uploaded,
     mec_upload_date |-> seed.mec_upload_date,
     status |-> seed.status, fadv_change_flag |-> seed.fadv_change_flag,
     updated_at |-> seed.updated_at]

\* the tables of at most NumRecs rows, each row from a later seed than the
\* row before it
InitStores ==
    UNION {
        {[id \in 1..n |-> TableRow(id, SeedRows[pick[id]])] :
            pick \in {f \in [1..n -> 1..Len(SeedRows)] :
                         \A i \in 1..n, j \in 1..n : i < j => f[i] < f[j]}}
        : n \in 0..NumRecs}

(***************************************************************************)
(* Field-scoped writes: one UPDATE ... WHERE id = :id each, at time t.     *)
(***************************************************************************)
update_candidate_notes(st, t, candidate_id, notes) ==
    [st EXCEPT ![candidate_id].recruiter_notes = Val(notes),
               ![candidate_id].fadv_change_flag = 0,
               ![candidate_id].updated_at = t]

clear_fadv_flag(st, t, candidate_id) ==
    [st EXCEPT ![candidate_id].fadv_change_flag = 0,
               ![candidate_id].updated_at = t]

update_candidate_status(st, t, candidate_id, status) ==
    [st EXCEPT ![candidate_id].status = Val(status),
               ![candidate_id].updated_at = t]

\* a G write that stamps the date also when it clears the bit
update_gcic_stamped(st, t, candidate_id, checked) ==
    [st EXCEPT ![candidate_id].gcic_uploaded = IF checked THEN 1 ELSE 0,
               ![candidate_id].gcic_upload_date = Val(IsoFormat(t)),
               ![candidate_id].updated_at = t]

update_gcic(st, t, candidate_id, checked) ==
    [st EXCEPT ![candidate_id].gcic_uploaded = IF checked THEN 1 ELSE 0,
               ![candidate_id].gcic_upload_date =
                   IF checked THEN Val(IsoFormat(t)) ELSE Null,
               ![candidate_id].updated_at = t]

update_mec(st, t, candidate_id, checked) ==
    [st EXCEPT ![candidate_id].mec_uploaded = IF checked THEN 1 ELSE 0,
               ![candidate_id].mec_upload_date =
                   IF checked THEN Val(IsoFormat(t)) ELSE Null,
               ![candidate_id].updated_at = t]

\* a FedEx ID write that clears the flag as well
update_fedex_id_flag(st, t, candidate_id, fedex_id) ==
    [st EXCEPT ![candidate_id].fedex_id =
                   IF fedex_id # Empty THEN Val(fedex_id) ELSE Null,
               ![candidate_id].fadv_change_flag = 0,
               ![candidate_id].updated_at = t]

\* {"fedex_id": fedex_id if fedex_id else None}
update_fedex_id(st, t, candidate_id, fedex_id) ==
    [st EXCEPT ![candidate_id].fedex_id =
                   IF fedex_id # Empty THEN Val(fedex_id) ELSE Null,
               ![candidate_id].updated_at = t]

(***************************************************************************)
(* load_candidates: the SELECT with its COALESCEs and its ORDER BY.        *)
(***************************************************************************)
\* the bit, date and id columns of the model's tables hold no NULL, so their
\* COALESCE is the column itself
LoadRow(r) ==
    [id |-> r.id, first_name |-> r.first_name, last_name |-> r.last_name,
     client_id |-> r.client_id, email |-> r.email, phone |-> r.phone,
     fedex_id |-> Coalesce(r.fedex_id, Empty),
     rwp_score |-> Coalesce(r.rwp_score, 0),
     bg_status |-> Coalesce(r.background_status, "Not Started"),
     drug_status |-> Coalesce(r.drug_test_status, "Not Started"),
     profile_status |-> Coalesce(r.profile_status, "Not Started"),
     order_status |-> Coalesce(r.legacy_order_status, "Not Started"),
     recruiter_notes |-> Coalesce(r.recruiter_notes, Empty),
     g |-> r.gcic_uploaded, m |-> r.mec_uploaded,
     g_date |-> Coalesce(r.gcic_upload_date, Empty),
     m_date |-> Coalesce(r.mec_upload_date, Empty),
     status |-> Coalesce(r.status, "new"),
     intake_date |-> r.intake_date, updated |-> r.updated_at,
     flag |-> r.fadv_change_flag]

\* ORDER BY fadv_change_flag DESC, intake_date DESC
OrderedBefore(a, b) ==
    \/ a.fadv_change_flag > b.fadv_change_flag
    \/ /\ a.fadv_change_flag = b.fadv_change_flag
       /\ a.intake_date > b.intake_date

RECURSIVE OrderRows(_)
OrderRows(rows) ==
    IF rows = {} THEN <<>>
    ELSE LET first == CHOOSE a \in rows :
                          \A b \in rows \ {a} : OrderedBefore(a, b)
         IN <<first>> \o OrderRows(rows \ {first})

load_candidates(st) ==
    LET ordered == OrderRows({st[id] : id \in DOMAIN st})
    IN [i \in 1..Len(ordered) |-> LoadRow(ordered[i])]

(***************************************************************************)
(* The sidebar widgets and the filter pipeline of main().                  *)
(***************************************************************************)
DefaultPred ==
    [search |-> Empty, client_filter |-> AllText,
     rwp_range |-> <<RwpMin, RwpMax>>, status_filter |-> "All",
     show_flagged_only |-> FALSE, order_filter |-> "All",
     profile_filter |-> "All", bg_filter |-> "All", drug_filter |-> "All",
     show_g |-> TRUE, show_no_g |-> TRUE, show_m |-> TRUE, show_no_m |-> TRUE]

\* the client view's selectboxes: background, drug and forms status
ClientDefaultPred ==
    [bg_filter |-> "All", drug_filter |-> "All", form_filter |-> "All"]

\* the mask of the search filter for one row
SearchMask(r, search) ==
    \/ Contains(Val(r.first_name), search)
    \/ Contains(Val(r.last_name), search)
    \/ Contains(r.email, search)
    \/ Contains(r.phone, search)
    \/ Contains(Val(r.client_id), search)

SearchPass(r, p) == p.search # Empty => SearchMask(r, p.search)
ClientPass(r, p) == p.client_filter # AllText => r.client_id = p.client_filter
RwpPass(r, p) ==
    r.rwp_score >= p.rwp_range[1] /\ r.rwp_score <= p.rwp_range[2]
StatusPass(r, p) == p.status_filter # "All" => r.status = p.status_filter
OrderPass(r, p) == p.order_filter # "All" => r.order_status = p.order_filter
ProfilePass(r, p) ==
    p.profile_filter # "All" => r.profile_status = p.profile_filter
BgPass(r, p) == p.bg_filter # "All" => r.bg_status = p.bg_filter
DrugPass(r, p) == p.drug_filter # "All" => r.drug_status = p.drug_filter
\* a flag filter that, unchecked, keeps the rows without the flag
FlagPassExclusive(r, p) == r.flag = (IF p.show_flagged_only THEN 1 ELSE 0)

FlagPass(r, p) == p.show_flagged_only => r.flag = 1

\* g_m_conditions: the boolean columns appended for the enabled toggles
GmConditions(r, p) ==
    (IF p.show_g THEN <<r.g = 1>> ELSE <<>>)
    \o (IF p.show_no_g THEN <<r.g = 0>> ELSE <<>>)
    \o (IF p.show_m THEN <<r.m = 1>> ELSE <<>>)
    \o (IF p.show_no_m THEN <<r.m = 0>> ELSE <<>>)

\* if g_m_conditions: keep the rows where pd.concat(...).any(axis=1)
GmPass(r, p) ==
    LET conds == GmConditions(r, p)
    IN conds # <<>> => \E i \in 1..Len(conds) : conds[i]

\* filtered_df: the filters applied one after the other, each keeping the
\* rows that pass, in their order (filtered_df[mask])
ApplyFilters(snapshot, p) ==
    LET f1 == SelectSeq(snapshot, LAMBDA r : SearchPass(r, p))
        f2 == SelectSeq(f1, LAMBDA r : ClientPass(r, p))
        f3 == SelectSeq(f2, LAMBDA r : RwpPass(r, p))
        f4 == SelectSeq(f3, LAMBDA r : StatusPass(r, p))
        f5 == SelectSeq(f4, LAMBDA r : OrderPass(r, p))
        f6 == SelectSeq(f5, LAMBDA r : ProfilePass(r, p))
        f7 == SelectSeq(f6, LAMBDA r : BgPass(r, p))
        f8 == SelectSeq(f7, LAMBDA r : DrugPass(r, p))
        f9 == SelectSeq(f8, LAMBDA r : FlagPass(r, p))
    IN SelectSeq(f9, LAMBDA r : GmPass(r, p))

\* the values a column takes in the snapshot: the options of its selectbox
ColumnValues(snapshot, col) == {snapshot[i][col] : i \in 1..Len(snapshot)}

(***************************************************************************)
(* The stats row: the "Avg RWP" metric.                                    *)
(***************************************************************************)
NotAvailable == <<"N", "/", "A">>

RECURSIVE SumSeq(_)
SumSeq(s) == IF s = <<>> THEN 0 ELSE Head(s) + SumSeq(Tail(s))

\* Series.mean(): Null is NaN, the mean of no value; else the sum and the
\* count it is the quotient of
SeriesMean(s) ==
    IF s = <<>> THEN Null ELSE Val([sum |-> SumSeq(s), count |-> Len(s)])

\* the quotient rounded to tenths, a tie to the even tenth (the ties of a
\* mean of fewer than 20 integers are quarters, which a float holds exactly)
RoundTenths(q) ==
    LET whole == (10 * q.sum) \div q.count
        rest == (10 * q.sum) % q.count
    IN IF 2 * rest < q.count THEN whole
       ELSE IF 2 * rest > q.count THEN whole + 1
       ELSE IF whole % 2 = 0 THEN whole ELSE whole + 1

Digits == <<"0", "1", "2", "3", "4", "5", "6", "7", "8", "9">>

\* the decimal digits of a natural number
RECURSIVE IntText(_)
IntText(n) ==
    IF n < 10 THEN <<Digits[n + 1]>>
    ELSE IntText(n \div 10) \o <<Digits[(n % 10) + 1]>>

\* f"{x:.1f}": the integer part, the point, one decimal
FormatTenths(q) ==
    LET tenths == RoundTenths(q)
    IN IntText(tenths \div 10) \o <<".">> \o IntText(tenths % 10)

\* a metric that divides by the size of the subset
AvgOverSubset(filtered) ==
    LET scored == SelectSeq(filtered, LAMBDA r : r.rwp_score > 0)
    IN IF filtered = <<>> THEN NotAvailable
       ELSE FormatTenths([sum |-> SumSeq([i \in 1..Len(scored) |->
                                            scored[i].rwp_score]),
                          count |-> Len(filtered)])

\* filtered_df[filtered_df['rwp_score'] > 0]['rwp_score'].mean(), shown as
\* f"{avg_rwp:.1f}" if not pd.isna(avg_rwp) else "N/A"
AvgMetric(filtered) ==
    LET scored == SelectSeq(filtered, LAMBDA r : r.rwp_score > 0)
        mean == SeriesMean([i \in 1..Len(scored) |-> scored[i].rwp_score])
    IN IF mean = Null THEN NotAvailable ELSE FormatTenths(mean[1])

(***************************************************************************)
(* The editable table of the candidate list tab.                           *)
(***************************************************************************)
\* bool(int(x))
Bool(x) == x # 0

\* lambda x: (x[:50] + '...') if len(str(x)) > 50 else x
TruncateNotes(x) ==
    IF Len(x) > NotesDisplayLen THEN Prefix(x, NotesDisplayLen) \o Ellipsis ELSE x

\* one row of display_df: the hidden raw columns and the four editable ones
\* (id, g_raw, m_raw, flag_raw stand for _id, _g_raw, _m_raw, _flag_raw)
DisplayRow(r) ==
    [id |-> r.id, g_raw |-> r.g, m_raw |-> r.m, flag_raw |-> r.flag,
     Notes |-> TruncateNotes(r.recruiter_notes), FedEx |-> r.fedex_id,
     G |-> Bool(r.g), M |-> Bool(r.m)]

DisplayTable(filtered) == [i \in 1..Len(filtered) |-> DisplayRow(filtered[i])]

\* what the user may type into a Notes cell, a FedEx ID cell
NotesInputs == {<<"b">>, <<"o", "k", " ">>}
FedexInputs == {Empty, <<"F", "X", "1", "2", "3">>}

\* the single-cell edits the user can make in a displayed table
CellEdits(display) ==
    UNION {
        {[idx |-> i, col |-> "Notes", text |-> v, checked |-> FALSE] :
            v \in NotesInputs}
        \cup {[idx |-> i, col |-> "FedEx ID", text |-> v, checked |-> FALSE] :
            v \in FedexInputs}
        \cup {[idx |-> i, col |-> "G", text |-> Empty, checked |-> ~display[i].G],
              [idx |-> i, col |-> "M", text |-> Empty, checked |-> ~display[i].M]}
        : i \in 1..Len(display)}

SameCell(e, f) == e.idx = f.idx /\ e.col = f.col

WellFormedEdits(es) == \A e \in es, f \in es : SameCell(e, f) => e = f

\* the sets of at most n edits, no two of the same cell
RECURSIVE EditSets(_, _)
EditSets(display, n) ==
    IF n = 0 THEN {{}}
    ELSE LET smaller == EditSets(display, n - 1)
         IN smaller \cup
            {es \in {old \cup {e} : old \in smaller, e \in CellEdits(display)} :
                WellFormedEdits(es)}

\* st.data_editor(display_df): the displayed table with the user's edits
data_editor(display, edits) ==
    [i \in 1..Len(display) |->
        LET on(c) == {e \in edits : e.idx = i /\ e.col = c}
            textOf(c, old) == IF on(c) = {} THEN old
                              ELSE (CHOOSE e \in on(c) : TRUE).text
            boolOf(c, old) == IF on(c) = {} THEN old
                              ELSE (CHOOSE e \in on(c) : TRUE).checked
        IN [display[i] EXCEPT !.Notes = textOf("Notes", @),
                              !.FedEx = textOf("FedEx ID", @),
                              !.G = boolOf("G", @),
                              !.M = boolOf("M", @)]]

(***************************************************************************)
(* Write calls.  A call names the function, the candidate and its argument *)
(* (text for notes and FedEx ID, checked for G and M, status).             *)
(***************************************************************************)
Call(op, id, text, checked, status) ==
    [op |-> op, id |-> id, text |-> text, checked |-> checked, status |-> status]

NotesCall(id, notes) == Call("update_candidate_notes", id, notes, FALSE, "")
FedexCall(id, fedex) == Call("update_fedex_id", id, fedex, FALSE, "")
GcicCall(id, checked) == Call("update_gcic", id, Empty, checked, "")
MecCall(id, checked) == Call("update_mec", id, Empty, checked, "")
StatusCall(id, status) == Call("update_candidate_status", id, Empty, FALSE, status)
ClearCall(id) == Call("clear_fadv_flag", id, Empty, FALSE, "")

ExecCall(st, t, c) ==
    CASE c.op = "update_candidate_notes" ->
            update_candidate_notes(st, t, c.id, c.text)
      [] c.op = "update_fedex_id" -> update_fedex_id(st, t, c.id, c.text)
      [] c.op = "update_gcic" -> update_gcic(st, t, c.id, c.checked)
      [] c.op = "update_mec" -> update_mec(st, t, c.id, c.checked)
      [] c.op = "update_candidate_status" ->
            update_candidate_status(st, t, c.id, c.status)
      [] c.op = "clear_fadv_flag" -> clear_fadv_flag(st, t, c.id)

\* the calls run in order, each at the next clock reading: the table they leave
RECURSIVE RunCalls(_, _, _)
RunCalls(st, t, calls) ==
    IF calls = <<>> THEN st
    ELSE RunCalls(ExecCall(st, t, Head(calls)), t + 1, Tail(calls))

\* the log of a run: each call with its call site (the batch diff or the
\* detail view), its clock reading, the table it found, the table it left
\* and how it ended (here: conn.commit() was reached)
CallLog(st, t, pass, button_calls) ==
    LET calls == pass \o button_calls
    IN [i \in 1..Len(calls) |->
           [call |-> calls[i],
            site |-> IF i <= Len(pass) THEN "batch" ELSE "detail",
            t |-> t + i - 1,
            before |-> RunCalls(st, t, SubSeq(calls, 1, i - 1)),
            after |-> RunCalls(st, t, SubSeq(calls, 1, i)),
            outcome |-> "committed"]]

(***************************************************************************)
(* Detect changes and save: the loop body for one row of the table.        *)
(***************************************************************************)
NotesChanged(orig, ed) ==
    NanToEmpty(Strip(ed.Notes)) # NanToEmpty(Strip(orig.recruiter_notes))

FedexChanged(orig, ed) ==
    NanToEmpty(Strip(ed.FedEx)) # NanToEmpty(Strip(orig.fedex_id))

GChanged(ed) == ed.G # Bool(ed.g_raw)
MChanged(ed) == ed.M # Bool(ed.m_raw)

RowCalls(orig, ed) ==
    (IF NotesChanged(orig, ed)
     THEN <<NotesCall(ed.id, NanToEmpty(Strip(ed.Notes)))>> ELSE <<>>)
    \o (IF FedexChanged(orig, ed)
        THEN <<FedexCall(ed.id, NanToEmpty(Strip(ed.FedEx)))>> ELSE <<>>)
    \o (IF GChanged(ed) THEN <<GcicCall(ed.id, ed.G)>> ELSE <<>>)
    \o (IF MChanged(ed) THEN <<MecCall(ed.id, ed.M)>> ELSE <<>>)

\* for idx in range(len(edited_df)): ...
RECURSIVE PassCallsFrom(_, _, _)
PassCallsFrom(filtered, edited, idx) ==
    IF idx > Len(edited) THEN <<>>
    ELSE RowCalls(filtered[idx], edited[idx])
         \o PassCallsFrom(filtered, edited, idx + 1)

PassCalls(filtered, edited) == PassCallsFrom(filtered, edited, 1)

(***************************************************************************)
(* One run of the script: main() from load_candidates() to its last line   *)
(* or to the st.rerun() that ends it.  p is the state of the sidebar       *)
(* widgets, edits the user's edits of the table, button_calls the writes   *)
(* of the button or checkbox the user operated; sel, det and rr are the    *)
(* session state and the pending rerun the run ends with.                  *)
(***************************************************************************)
ScriptRun(p, edits, button_calls, sel, det, rr) ==
    \E snapshot \in {load_candidates(store)} :
    \E filtered \in {ApplyFilters(snapshot, p)} :
    \E display \in {DisplayTable(filtered)} :
    \E edited \in {data_editor(display, edits)} :
    \E pass \in {PassCalls(filtered, edited)} :
    \E calls \in {pass \o button_calls} :
       /\ engine
       /\ now - external + Len(calls) <= MaxClock + 1
       /\ pred' = p
       /\ df' = snapshot
       /\ filtered_df' = filtered
       /\ display_df' = display
       /\ edited_df' = edited
       /\ changes_made' = (pass # <<>>)
       /\ wlog' = CallLog(store, now, pass, button_calls)
       /\ store' = RunCalls(store, now, calls)
       /\ now' = now + Len(calls)
       /\ selected_candidate' = sel
       /\ show_detail' = det
       /\ rerun' = rr
       /\ avg_rwp' = AvgMetric(filtered)
       /\ raised' = ""
       /\ UNCHANGED <<external, engine, client_vars>>

\* A run in which a write call of the batch diff, the k-th, raises: the
\* engine.connect() of get_connection() or conn.execute() fails, the exception
\* leaves the function before conn.commit() and, as main() catches nothing,
\* ends the run there.
FailingRun(p, edits) ==
    \E snapshot \in {load_candidates(store)} :
    \E filtered \in {ApplyFilters(snapshot, p)} :
    \E display \in {DisplayTable(filtered)} :
    \E edited \in {data_editor(display, edits)} :
    \E pass \in {PassCalls(filtered, edited)} :
    \E k \in 1..Len(pass) :
       /\ engine
       /\ now - external + k <= MaxClock + 1
       /\ \E done \in {SubSeq(pass, 1, k - 1)} :
          \E left \in {RunCalls(store, now, done)} :
             /\ pred' = p
             /\ df' = snapshot
             /\ filtered_df' = filtered
             /\ display_df' = display
             /\ edited_df' = edited
             /\ changes_made' = (done # <<>>)
             /\ wlog' = CallLog(store, now, done, <<>>)
                           \o <<[call |-> pass[k], site |-> "batch",
                                 t |-> now + k - 1, before |-> left,
                                 after |-> left, outcome |-> "raised"]>>
             /\ store' = left
             /\ now' = now + k
             /\ rerun' = FALSE
             /\ avg_rwp' = AvgMetric(filtered)
             /\ raised' = "OperationalError"
             /\ UNCHANGED <<selected_candidate, show_detail, external, engine,
                            client_vars>>

\* the run without any button: the session state stays, nothing is pending
PlainRun(p, edits) ==
    ScriptRun(p, edits, <<>>, selected_candidate, show_detail, FALSE)

\* the number of sidebar widgets, the form toggles aside, off their default
ActiveCount(p) ==
    Cardinality({w \in {"search", "client_filter", "rwp_range", "status_filter",
                        "show_flagged_only", "order_filter", "profile_filter",
                        "bg_filter", "drug_filter"} : p[w] # DefaultPred[w]})

SetWidget(w, v) ==
    /\ ~rerun
    /\ v # pred[w]
    /\ ActiveCount([pred EXCEPT ![w] = v]) <= MaxActive
    /\ PlainRun([pred EXCEPT ![w] = v], {})

SearchInputs == {Empty, <<"a", "n">>, <<"A", ".", "X">>}
RwpRanges == {<<RwpMin, RwpMax>>, <<1, RwpMax>>, <<RwpMin, 5>>, <<1, 5>>}

SetSearch == \E v \in SearchInputs : SetWidget("search", v)
SetClient ==
    \E v \in {AllText} \cup ColumnValues(df, "client_id") :
        SetWidget("client_filter", v)
SetRwpRange == \E v \in RwpRanges : SetWidget("rwp_range", v)
SetStatus ==
    \E v \in {"All"} \cup ColumnValues(df, "status") : SetWidget("status_filter", v)
SetFlaggedOnly == \E v \in BOOLEAN : SetWidget("show_flagged_only", v)
SetOrder ==
    \E v \in {"All"} \cup ColumnValues(df, "order_status") :
        SetWidget("order_filter", v)
SetProfile ==
    \E v \in {"All"} \cup ColumnValues(df, "profile_status") :
        SetWidget("profile_filter", v)
SetBg ==
    \E v \in {"All"} \cup ColumnValues(df, "bg_status") : SetWidget("bg_filter", v)
SetDrug ==
    \E v \in {"All"} \cup ColumnValues(df, "drug_status") :
        SetWidget("drug_filter", v)
SetShowG == \E v \in BOOLEAN : SetWidget("show_g", v)
SetShowNoG == \E v \in BOOLEAN : SetWidget("show_no_g", v)
SetShowM == \E v \in BOOLEAN : SetWidget("show_m", v)
SetShowNoM == \E v \in BOOLEAN : SetWidget("show_no_m", v)

\* the run st.rerun() starts, and the first run of the session
Rerun ==
    /\ rerun
    /\ PlainRun(pred, {})

\* "Refresh Data" of the sidebar: st.rerun() right after the load
RefreshSidebar ==
    /\ ~rerun
    /\ engine
    /\ df' = load_candidates(store)
    /\ rerun' = TRUE
    /\ raised' = ""
    /\ UNCHANGED <<store, now, pred, filtered_df, display_df, edited_df, wlog,
                   changes_made, selected_candidate, show_detail, external,
                   avg_rwp, engine, client_vars>>

\* "Refresh Data" under the table: st.rerun() after the batch diff
RefreshTable ==
    /\ ~rerun
    /\ ApplyFilters(load_candidates(store), pred) # <<>>
    /\ ScriptRun(pred, {}, <<>>, selected_candidate, show_detail, TRUE)

\* the user edits cells of the table
EditTable ==
    /\ ~rerun
    /\ \E display \in {DisplayTable(ApplyFilters(load_candidates(store), pred))} :
       \E edits \in EditSets(display, MaxEdits) \ {{}} :
           PlainRun(pred, edits)

\* the user edits cells of the table and a write of the pass fails
EditTableFailing ==
    /\ ~rerun
    /\ \E display \in {DisplayTable(ApplyFilters(load_candidates(store), pred))} :
       \E edits \in EditSets(display, MaxFailEdits) \ {{}} :
           FailingRun(pred, edits)

\* f"{row['first_name']} {row['last_name']}"
FullName(r) == r.first_name \o <<" ">> \o r.last_name

\* the id of the last row with the selected name
LastNamed(filtered, name) ==
    LET at == {i \in 1..Len(filtered) : FullName(filtered[i]) = name}
    IN filtered[CHOOSE i \in at : \A j \in at : i >= j].id

\* the id "View Details" stores: of the first row with the selected name
FirstNamed(filtered, name) ==
    LET at == {i \in 1..Len(filtered) : FullName(filtered[i]) = name}
    IN filtered[CHOOSE i \in at : \A j \in at : i <= j].id

ViewDetails ==
    /\ ~rerun
    /\ \E filtered \in {ApplyFilters(load_candidates(store), pred)} :
          \E i \in 1..Len(filtered) :
              ScriptRun(pred, {}, <<>>,
                        FirstNamed(filtered, FullName(filtered[i])), TRUE, TRUE)

\* candidate = df[df['id'] == st.session_state.selected_candidate].iloc[0]
Candidate(snapshot, sel) ==
    snapshot[CHOOSE i \in 1..Len(snapshot) : snapshot[i].id = sel]

DetailShown == show_detail /\ selected_candidate # None

Close ==
    /\ ~rerun
    /\ DetailShown
    /\ ScriptRun(pred, {}, <<>>, None, FALSE, TRUE)

MarkReviewed ==
    /\ ~rerun
    /\ DetailShown
    /\ \E candidate \in {Candidate(load_candidates(store), selected_candidate)} :
          /\ candidate.flag = 1
          /\ ScriptRun(pred, {}, <<ClearCall(candidate.id)>>,
                       selected_candidate, show_detail, TRUE)

\* the detail view's GCIC checkbox, left at g_checked by the user
ToggleG ==
    /\ ~rerun
    /\ DetailShown
    /\ \E g_checked \in BOOLEAN :
       \E candidate \in {Candidate(load_candidates(store), selected_candidate)} :
        LET differs == g_checked # Bool(candidate.g)
        IN ScriptRun(pred, {},
                     IF differs THEN <<GcicCall(candidate.id, g_checked)>> ELSE <<>>,
                     selected_candidate, show_detail, differs)

ToggleM ==
    /\ ~rerun
    /\ DetailShown
    /\ \E m_checked \in BOOLEAN :
       \E candidate \in {Candidate(load_candidates(store), selected_candidate)} :
        LET differs == m_checked # Bool(candidate.m)
        IN ScriptRun(pred, {},
                     IF differs THEN <<MecCall(candidate.id, m_checked)>> ELSE <<>>,
                     selected_candidate, show_detail, differs)

\* a "Save Notes" that writes and does not call st.rerun()
SaveNotesStaying ==
    /\ ~rerun
    /\ DetailShown
    /\ \E candidate \in {Candidate(load_candidates(store), selected_candidate)} :
          \E notes \in {<<"b">>, candidate.recruiter_notes} :
              ScriptRun(pred, {}, <<NotesCall(candidate.id, notes)>>,
                        selected_candidate, show_detail, FALSE)

\* "Save Notes": the text area holds the loaded notes or what the user typed
SaveNotes ==
    /\ ~rerun
    /\ DetailShown
    /\ \E candidate \in {Candidate(load_candidates(store), selected_candidate)} :
          \E notes \in {<<"b">>, candidate.recruiter_notes} :
              ScriptRun(pred, {}, <<NotesCall(candidate.id, notes)>>,
                        selected_candidate, show_detail, TRUE)

\* the entries of the status selectbox the user picks from
StatusPicks == {i \in 1..Len(StatusList) : StatusList[i] \in {"hired"}}

UpdateStatus ==
    /\ ~rerun
    /\ DetailShown
    /\ \E candidate \in {Candidate(load_candidates(store), selected_candidate)} :
          \E i \in StatusPicks :
              ScriptRun(pred, {}, <<StatusCall(candidate.id, StatusList[i])>>,
                        selected_candidate, show_detail, TRUE)

\* What other writers of the shared table do to a row between two runs of
\* this session: another recruiter saves notes of more than 50 characters in
\* the detail view of their session (update_candidate_notes, which shows and
\* sends the full text), and the upstream vendor then reports a change, which
\* sets the flag.
External ==
    /\ ~rerun
    /\ external < MaxExternal
    /\ \E id \in DOMAIN store :
           store' = [update_candidate_notes(store, now, id, LongNotes)
                         EXCEPT ![id].fadv_change_flag = 1]
    /\ now' = now + 1
    /\ external' = external + 1
    /\ UNCHANGED <<pred, df, filtered_df, display_df, edited_df, wlog,
                   changes_made, selected_candidate, show_detail, rerun,
                   avg_rwp, engine, raised, client_vars>>

(***************************************************************************)
(* The write functions called on their own: one call of update_* or        *)
(* clear_fadv_flag by a caller that, as the diff loop does, sets           *)
(* changes_made once the function has returned.  get_connection() gives    *)
(* None when no engine was built, and the function then returns at once;   *)
(* otherwise the statement commits, or engine.connect() / conn.execute()   *)
(* raises before conn.commit().                                            *)
(***************************************************************************)
WriteCalls(st) ==
    UNION {{NotesCall(id, notes) : notes \in NotesInputs}
             \cup {FedexCall(id, fedex) : fedex \in FedexInputs}
             \cup {GcicCall(id, checked) : checked \in BOOLEAN}
             \cup {MecCall(id, checked) : checked \in BOOLEAN}
             \cup {StatusCall(id, StatusList[i]) : i \in StatusPicks}
             \cup {ClearCall(id)} : id \in DOMAIN st}

\* what the call and its caller leave: the table, how the call ended, the
\* exception that reached the caller ("" for none)
WriteEnds(c, left, outcome, exception) ==
    /\ now <= MaxClock
    /\ wlog' = <<[call |-> c, site |-> "batch", t |-> now, before |-> store,
                  after |-> left, outcome |-> outcome]>>
    /\ store' = left
    /\ now' = now + 1
    /\ changes_made' = (exception = "")
    /\ raised' = exception
    /\ UNCHANGED <<pred, df, filtered_df, display_df, edited_df,
                   selected_candidate, show_detail, rerun, external, avg_rwp,
                   engine, client_vars>>

WriteCommits ==
    /\ engine
    /\ \E c \in WriteCalls(store) :
           WriteEnds(c, ExecCall(store, now, c), "committed", "")

WriteRaises ==
    /\ engine
    /\ \E c \in WriteCalls(store) :
           WriteEnds(c, store, "raised", "OperationalError")

\* conn = get_connection(); if not conn: return
WriteWithoutConnection ==
    /\ ~engine
    /\ \E c \in WriteCalls(store) : WriteEnds(c, store, "no connection", "")

(***************************************************************************)
(* The client view (client_dashboard.py): one run of its main() for the    *)
(* 'client' query parameter and the three selectboxes.                     *)
(***************************************************************************)
\* strftime('%m/%d/%Y') keeps the day of a timestamp and drops the time
TicksPerDay == 2
StrfDate(created_at) == created_at \div TicksPerDay

\* a row of the client view's SELECT: no id and no client_id column
ClientLoadRow(r) ==
    [first_name |-> r.first_name, last_name |-> r.last_name,
     fedex_id |-> Coalesce(r.fedex_id, Empty),
     rwp_score |-> Coalesce(r.rwp_score, 0),
     rwp_classification |-> Coalesce(r.rwp_classification, Empty),
     rwp_rationale |-> Coalesce(r.rwp_rationale, Empty),
     profile_status |-> Coalesce(r.profile_status, ""),
     background_status |-> Coalesce(r.background_status, ""),
     drug_test_status |-> Coalesce(r.drug_test_status, ""),
     g |-> r.gcic_uploaded, m |-> r.mec_uploaded,
     phone |-> Coalesce(r.phone, Empty), email |-> Coalesce(r.email, Empty),
     created_at |-> r.created_at]

\* ORDER BY created_at DESC
RECURSIVE NewestFirst(_)
NewestFirst(rows) ==
    IF rows = {} THEN <<>>
    ELSE LET first == CHOOSE a \in rows :
                          \A b \in rows \ {a} : a.created_at > b.created_at
         IN <<first>> \o NewestFirst(rows \ {first})

\* a SELECT without the WHERE clause
AnyClient(st, c) == {st[id] : id \in DOMAIN st}

\* WHERE client_id = :client_id
OfClient(st, c) == {st[id] : id \in {i \in DOMAIN st : st[i].client_id = c}}

client_load_candidates(st, c) ==
    LET ordered == NewestFirst(OfClient(st, c))
    IN [i \in 1..Len(ordered) |-> ClientLoadRow(ordered[i])]

Checkmark(x) == IF x = 1 THEN "checked" ELSE "unchecked"

\* the renamed columns, G and M as check marks, the date formatted
ClientDisplayRow(r) ==
    [First_Name |-> r.first_name, Last_Name |-> r.last_name,
     FedEx_ID |-> r.fedex_id, RWP |-> r.rwp_score,
     Classification |-> r.rwp_classification, Rationale |-> r.rwp_rationale,
     Profile_Status |-> r.profile_status,
     Background_Status |-> r.background_status,
     Drug_Status |-> r.drug_test_status,
     G |-> Checkmark(r.g), M |-> Checkmark(r.m),
     Phone |-> r.phone, Email |-> r.email, Added |-> StrfDate(r.created_at)]

FormOptions == {"All", "Both Complete", "G Only", "M Only", "Neither"}

FormsPass(r, form_filter) ==
    CASE form_filter = "Both Complete" -> r.G = "checked" /\ r.M = "checked"
      [] form_filter = "G Only" -> r.G = "checked" /\ r.M = "unchecked"
      [] form_filter = "M Only" -> r.G = "unchecked" /\ r.M = "checked"
      [] form_filter = "Neither" -> r.G = "unchecked" /\ r.M = "unchecked"
      [] OTHER -> TRUE

ClientApplyFilters(display, p) ==
    SelectSeq(display, LAMBDA r :
        /\ p.bg_filter # "All" => r.Background_Status = p.bg_filter
        /\ p.drug_filter # "All" => r.Drug_Status = p.drug_filter
        /\ FormsPass(r, p.form_filter))

\* the options of a status selectbox: 'All' and the values of the column
StatusOptions(display, col) ==
    {"All"} \cup {display[i][col] : i \in 1..Len(display)}

\* a selectbox whose options no longer hold its value is back at 'All'
Selected(value, options) == IF value \in options THEN value ELSE "All"

\* if not client_id (None or '')
Missing(c) == c = Null \/ c[1] = Empty

\* a view without the registry check
AlwaysRegistered(c, reg) == TRUE

\* client_id in registry
Registered(c, reg) == c[1] \in reg

\* the run ends before the table: what it showed, and whether it queried
ClientEnds(c, page, loaded, queried) ==
    /\ client_id' = c
    /\ client_page' = page
    /\ client_df' = loaded
    /\ client_filtered_df' = <<>>
    /\ client_pred' = ClientDefaultPred
    /\ client_queried' = queried

ClientRun(c, p) ==
    /\ IF Missing(c) THEN ClientEnds(c, "no client specified", <<>>, FALSE)
       ELSE IF ~Registered(c, registry)
       THEN ClientEnds(c, "unknown client", <<>>, FALSE)
       ELSE IF ~engine
       THEN ClientEnds(c, "no candidates found", <<>>, FALSE)
       ELSE \E loaded \in {client_load_candidates(store, c[1])} :
            IF loaded = <<>>
            THEN ClientEnds(c, "no candidates found", loaded, TRUE)
            ELSE \E display \in {[i \in 1..Len(loaded) |->
                                     ClientDisplayRow(loaded[i])]} :
                 \E sel \in {[bg_filter |->
                                 Selected(p.bg_filter,
                                     StatusOptions(display, "Background_Status")),
                               drug_filter |->
                                 Selected(p.drug_filter,
                                     StatusOptions(display, "Drug_Status")),
                               form_filter |-> p.form_filter]} :
                    /\ client_id' = c
                    /\ client_page' = "candidates"
                    /\ client_df' = loaded
                    /\ client_filtered_df' = ClientApplyFilters(display, sel)
                    /\ client_pred' = sel
                    /\ client_queried' = TRUE
    /\ UNCHANGED <<store, now, pred, df, filtered_df, display_df, edited_df,
                   wlog, changes_made, selected_candidate, show_detail, rerun,
                   external, avg_rwp, engine, raised, registry>>

\* the 'client' query parameter of a request: absent, empty, or an id
ClientParams == {Null, Val(Empty), Val(Cbm), Val(Fdx), Val(NewClient)}

\* the page is requested: the selectboxes are at their defaults
ClientOpen == \E c \in ClientParams : ClientRun(c, ClientDefaultPred)

\* the values a status selectbox of the page shown offers
ShownStatuses(col) ==
    {"All"} \cup {ClientDisplayRow(client_df[i])[col] : i \in 1..Len(client_df)}

ClientSelectBg ==
    /\ client_page = "candidates"
    /\ \E v \in ShownStatuses("Background_Status") :
           ClientRun(client_id, [client_pred EXCEPT !.bg_filter = v])

ClientSelectDrug ==
    /\ client_page = "candidates"
    /\ \E v \in ShownStatuses("Drug_Status") :
           ClientRun(client_id, [client_pred EXCEPT !.drug_filter = v])

ClientSelectForms ==
    /\ client_page = "candidates"
    /\ \E v \in FormOptions :
           ClientRun(client_id, [client_pred EXCEPT !.form_filter = v])

\* The recruiter view without an engine: load_candidates returns
\* pd.DataFrame(), a frame without columns, and the sidebar's
\* df['client_id'] raises KeyError, which ends the run.
RerunWithoutEngine ==
    /\ ~engine
    /\ df' = <<>>
    /\ filtered_df' = <<>>
    /\ display_df' = <<>>
    /\ edited_df' = <<>>
    /\ wlog' = <<>>
    /\ changes_made' = FALSE
    /\ rerun' = FALSE
    /\ raised' = "KeyError"
    /\ UNCHANGED <<store, now, pred, selected_candidate, show_detail,
                   external, avg_rwp, engine, client_vars>>

(***************************************************************************)
(* Specifications.                                                         *)
(***************************************************************************)
Init ==
    /\ store \in InitStores
    /\ now = 1
    /\ pred = DefaultPred
    /\ df = <<>>
    /\ filtered_df = <<>>
    /\ display_df = <<>>
    /\ edited_df = <<>>
    /\ wlog = <<>>
    /\ changes_made = FALSE
    /\ selected_candidate = None
    /\ show_detail = FALSE
    /\ rerun = TRUE
    /\ external = 0
    /\ avg_rwp = NotAvailable
    /\ engine = TRUE
    /\ raised = ""
    /\ client_id = Null
    /\ client_page = ""
    /\ client_df = <<>>
    /\ client_filtered_df = <<>>
    /\ client_pred = ClientDefaultPred
    /\ client_queried = FALSE
    /\ registry = {Cbm, NewClient}

\* the recruiter session on the shared table: table edits, the detail view,
\* the flag filter (which makes the table show a part of the rows), and the
\* other writers
Next ==
    \/ Rerun
    \/ RefreshSidebar
    \/ RefreshTable
    \/ SetFlaggedOnly
    \/ EditTable
    \/ ViewDetails
    \/ Close
    \/ MarkReviewed
    \/ ToggleG
    \/ ToggleM
    \/ SaveNotes
    \/ UpdateStatus
    \/ External

Spec == Init /\ [][Next]_vars

\* the filter pipeline under every sidebar widget
FilterNext ==
    \/ Rerun
    \/ SetSearch
    \/ SetClient
    \/ SetRwpRange
    \/ SetStatus
    \/ SetFlaggedOnly
    \/ SetOrder
    \/ SetProfile
    \/ SetBg
    \/ SetDrug
    \/ SetShowG
    \/ SetShowNoG
    \/ SetShowM
    \/ SetShowNoM

FilterSpec == Init /\ [][FilterNext]_vars

\* the batch diff with writes that fail
FailNext ==
    \/ Rerun
    \/ EditTable
    \/ EditTableFailing

FailSpec == Init /\ [][FailNext]_vars

\* the same start with or without a configured database: get_database_engine
\* returns None when get_db_url() finds no URL
InitAnyEngine ==
    /\ store \in InitStores
    /\ now = 1
    /\ pred = DefaultPred
    /\ df = <<>>
    /\ filtered_df = <<>>
    /\ display_df = <<>>
    /\ edited_df = <<>>
    /\ wlog = <<>>
    /\ changes_made = FALSE
    /\ selected_candidate = None
    /\ show_detail = FALSE
    /\ rerun = TRUE
    /\ external = 0
    /\ avg_rwp = NotAvailable
    /\ engine \in BOOLEAN
    /\ raised = ""
    /\ client_id = Null
    /\ client_page = ""
    /\ client_df = <<>>
    /\ client_filtered_df = <<>>
    /\ client_pred = ClientDefaultPred
    /\ client_queried = FALSE
    /\ registry \in Registries

\* the write functions alone
WriteNext ==
    \/ WriteCommits
    \/ WriteRaises
    \/ WriteWithoutConnection

WriteSpec == InitAnyEngine /\ [][WriteNext]_vars

\* both views, with or without a configured database
ViewsNext ==
    \/ Rerun
    \/ RerunWithoutEngine
    \/ ClientOpen
    \/ ClientSelectBg
    \/ ClientSelectDrug
    \/ ClientSelectForms

ViewsSpec == InitAnyEngine /\ [][ViewsNext]_vars

(***************************************************************************)
(* Properties.  The states they read are those a script run leaves:        *)
(* filtered_df is the snapshot part the table showed, display_df the table *)
(* as displayed, edited_df the table as returned, wlog the calls issued,   *)
(* store the table after them.                                             *)
(***************************************************************************)
\* the flag of the record of row i when the run ended
FlagAfterRun(i) ==
    IF wlog = <<>> THEN filtered_df[i].flag
    ELSE wlog[Len(wlog)].after[filtered_df[i].id].fadv_change_flag

\* the calls of the log issued by the batch diff
BatchLog == SelectSeq(wlog, LAMBDA e : e.site = "batch")

\* the normal form of a text cell: trimmed, 'nan' and '' both no value
Normal(text) == NanToEmpty(Strip(text))

\* the write function of an editable column
OpOf(col) ==
    CASE col = "Notes" -> "update_candidate_notes"
      [] col = "FedEx ID" -> "update_fedex_id"
      [] col = "G" -> "update_gcic"
      [] col = "M" -> "update_mec"

EditableColumns == {"Notes", "FedEx ID", "G", "M"}

\* the user touched the cell: it differs from what the table displayed
Touched(i, col) ==
    CASE col = "Notes" -> edited_df[i].Notes # display_df[i].Notes
      [] col = "FedEx ID" -> edited_df[i].FedEx # display_df[i].FedEx
      [] col = "G" -> edited_df[i].G # display_df[i].G
      [] col = "M" -> edited_df[i].M # display_df[i].M

\* the user's value differs from the last-loaded one after normalization
UserChanged(i, col) ==
    /\ Touched(i, col)
    /\ CASE col = "Notes" ->
                Normal(edited_df[i].Notes) # Normal(filtered_df[i].recruiter_notes)
         [] col = "FedEx ID" ->
                Normal(edited_df[i].FedEx) # Normal(filtered_df[i].fedex_id)
         [] col = "G" -> edited_df[i].G # Bool(filtered_df[i].g)
         [] col = "M" -> edited_df[i].M # Bool(filtered_df[i].m)

\* the batch writes of one cell
WritesFor(i, col) ==
    {k \in 1..Len(BatchLog) :
        /\ BatchLog[k].call.id = filtered_df[i].id
        /\ BatchLog[k].call.op = OpOf(col)}

\* C1: a reconciliation pass over a table the user did not edit (edited_df
\* equal to display_df) detects no change and issues no write, also when a
\* visible record has notes longer than 50 characters.
C1_IdempotentDiff ==
    edited_df = display_df => (~changes_made /\ BatchLog = <<>>)

\* C2: for a record shown with the flag set, a pass in which the user
\* changed only its notes leaves the flag cleared, and a pass in which the
\* user changed only other cells of the row, the notes cell untouched,
\* leaves the flag set.
C2_FlagClear ==
    \A i \in 1..Len(edited_df) :
        LET others == \E col \in EditableColumns \ {"Notes"} : Touched(i, col)
        IN (filtered_df[i].flag = 1 /\ BatchLog = wlog) =>
              /\ (UserChanged(i, "Notes") /\ ~others)
                     => FlagAfterRun(i) = 0
              /\ (~Touched(i, "Notes") /\ others)
                     => FlagAfterRun(i) = 1

\* C3: a pass issues exactly one write for a (record, field) whose edited
\* value differs from the last-loaded one after normalization, and none for
\* any other; a pass whose only edit sets an empty FedEx ID to "FX123" issues
\* the single write update_fedex_id and leaves a set flag set.
C3_MinimalDiff ==
    /\ \A i \in 1..Len(edited_df) : \A col \in EditableColumns :
           Cardinality(WritesFor(i, col)) = IF UserChanged(i, col) THEN 1 ELSE 0
    /\ \A i \in 1..Len(edited_df) :
           (/\ filtered_df[i].fedex_id = Empty
            /\ edited_df[i].FedEx = <<"F", "X", "1", "2", "3">>
            /\ \A j \in 1..Len(edited_df) : \A col \in EditableColumns :
                   Touched(j, col) => (j = i /\ col = "FedEx ID"))
           => /\ Len(BatchLog) = 1
              /\ BatchLog[1].call = FedexCall(filtered_df[i].id, edited_df[i].FedEx)
              /\ (wlog = BatchLog => FlagAfterRun(i) = filtered_df[i].flag)

\* the rows of the snapshot that pass every predicate but the form toggles
PassOthers(snapshot, p) ==
    SelectSeq(snapshot, LAMBDA r :
        /\ (p.search # Empty => SearchMask(r, p.search))
        /\ (p.client_filter # AllText => r.client_id = p.client_filter)
        /\ r.rwp_score >= p.rwp_range[1] /\ r.rwp_score <= p.rwp_range[2]
        /\ (p.status_filter # "All" => r.status = p.status_filter)
        /\ (p.order_filter # "All" => r.order_status = p.order_filter)
        /\ (p.profile_filter # "All" => r.profile_status = p.profile_filter)
        /\ (p.bg_filter # "All" => r.bg_status = p.bg_filter)
        /\ (p.drug_filter # "All" => r.drug_status = p.drug_filter)
        /\ (p.show_flagged_only => r.flag = 1))

\* C4: with the four form toggles off the filter result is empty, and with
\* the four on it is the rows that pass the other predicates.
C4_FormExtremes ==
    /\ (~pred.show_g /\ ~pred.show_no_g /\ ~pred.show_m /\ ~pred.show_no_m)
           => filtered_df = <<>>
    /\ (pred.show_g /\ pred.show_no_g /\ pred.show_m /\ pred.show_no_m)
           => filtered_df = PassOthers(df, pred)

\* C5: a row is in the filter result only if its G state matches an enabled
\* toggle of the G pair and its M state matches an enabled toggle of the M
\* pair.
C5_PairwiseOr ==
    \A i \in 1..Len(filtered_df) :
        LET r == filtered_df[i]
        IN /\ (pred.show_g /\ r.g = 1) \/ (pred.show_no_g /\ r.g = 0)
           /\ (pred.show_m /\ r.m = 1) \/ (pred.show_no_m /\ r.m = 0)

\* the rows of a table, as a set
Range(s) == {s[i] : i \in 1..Len(s)}

Selectboxes ==
    {"status_filter", "order_filter", "profile_filter", "bg_filter",
     "drug_filter"}

FormToggles == {"show_g", "show_no_g", "show_m", "show_no_m"}

\* p with one more predicate disabled: the search text emptied, a selectbox
\* set back to 'All' or flagged-only unchecked
NarrowRelaxations(p) ==
    ({[p EXCEPT !.search = Empty], [p EXCEPT !.client_filter = AllText],
      [p EXCEPT !.show_flagged_only = FALSE]}
     \cup {[p EXCEPT ![w] = "All"] : w \in Selectboxes}) \ {p}

\* p with one of the four form toggles unchecked
ToggleRelaxations(p) == {[p EXCEPT ![w] = FALSE] : w \in FormToggles} \ {p}

\* C6 (as stated): every row of the filter result is also in the result under
\* the predicate set with one more predicate disabled, where disabling is
\* emptying the search text, setting a selectbox back to 'All', unchecking
\* flagged-only or unchecking one of the four form toggles.
C6_MonotoneToggles ==
    \A q \in NarrowRelaxations(pred) \cup ToggleRelaxations(pred) :
        Range(filtered_df) \subseteq Range(ApplyFilters(df, q))

\* C6 (amended): every row of the filter result is also in the result under
\* the predicate set with the search text emptied, one selectbox set back to
\* 'All' or flagged-only unchecked.
C6_Monotone ==
    \A q \in NarrowRelaxations(pred) :
        Range(filtered_df) \subseteq Range(ApplyFilters(df, q))

\* a filter result that disabling one predicate makes strictly larger
C6_Witness ==
    /\ filtered_df # <<>>
    /\ \E q \in NarrowRelaxations(pred) :
           Len(ApplyFilters(df, q)) > Len(filtered_df)

\* s is t with some rows left out, the others in the order of t
RECURSIVE IsSubseq(_, _)
IsSubseq(s, t) ==
    IF s = <<>> THEN TRUE
    ELSE IF t = <<>> THEN FALSE
    ELSE IF Head(s) = Head(t) THEN IsSubseq(Tail(s), Tail(t))
    ELSE IsSubseq(s, Tail(t))

\* the cell holds the text as a substring, letter case ignored
HasSubstring(cell, text) ==
    /\ cell # Null
    /\ \E k \in 0..(Len(cell[1]) - Len(text)) :
           \A j \in 1..Len(text) :
               LowerChar(cell[1][k + j]) = LowerChar(text[j])

\* the row satisfies the active search, client, score-range, status and flag
\* predicates
Satisfies(r, p) ==
    /\ p.search # Empty =>
           \/ HasSubstring(Val(r.first_name), p.search)
           \/ HasSubstring(Val(r.last_name), p.search)
           \/ HasSubstring(r.email, p.search)
           \/ HasSubstring(r.phone, p.search)
           \/ HasSubstring(Val(r.client_id), p.search)
    /\ p.client_filter # AllText => r.client_id = p.client_filter
    /\ p.rwp_range[1] <= r.rwp_score /\ r.rwp_score <= p.rwp_range[2]
    /\ p.status_filter # "All" => r.status = p.status_filter
    /\ p.show_flagged_only => r.flag = 1

\* C7: the filter result is a subsequence of the snapshot in the snapshot's
\* order, and each of its rows satisfies every active search, client,
\* score-range, status and flag predicate (so an empty snapshot, or a
\* predicate set no row satisfies, gives the empty result).
C7_FilterResult ==
    /\ IsSubseq(filtered_df, df)
    /\ \A i \in 1..Len(filtered_df) : Satisfies(filtered_df[i], pred)

\* C8: in every record the upload date of a form is set exactly when its bit
\* is; a G or M write is issued only for a changed bit, sets the date when it
\* sets the bit and clears it to null when it clears the bit.
C8_FormBits ==
    /\ \A id \in DOMAIN store :
           /\ store[id].gcic_upload_date # Null <=> store[id].gcic_uploaded = 1
           /\ store[id].mec_upload_date # Null <=> store[id].mec_uploaded = 1
    /\ \A k \in 1..Len(wlog) :
           LET e == wlog[k]
               id == e.call.id
           IN /\ e.call.op = "update_gcic" =>
                    /\ Bool(e.before[id].gcic_uploaded) # e.call.checked
                    /\ Bool(e.after[id].gcic_uploaded) = e.call.checked
                    /\ e.after[id].gcic_upload_date # Null <=> e.call.checked
              /\ e.call.op = "update_mec" =>
                    /\ Bool(e.before[id].mec_uploaded) # e.call.checked
                    /\ Bool(e.after[id].mec_uploaded) = e.call.checked
                    /\ e.after[id].mec_upload_date # Null <=> e.call.checked

\* a run that cleared the G bit of a record and, with it, the upload date
C8_Witness ==
    \E k \in 1..Len(wlog) :
        /\ wlog[k].call.op = "update_gcic"
        /\ ~wlog[k].call.checked
        /\ wlog[k].before[wlog[k].call.id].gcic_upload_date # Null
        /\ wlog[k].after[wlog[k].call.id].gcic_upload_date = Null

\* the columns of the candidates table
Columns ==
    {"id", "first_name", "last_name", "client_id", "email", "phone",
     "fedex_id", "rwp_score", "background_status", "drug_test_status",
     "profile_status", "legacy_order_status", "recruiter_notes",
     "gcic_uploaded", "mec_uploaded", "gcic_upload_date", "mec_upload_date",
     "status", "intake_date", "updated_at", "fadv_change_flag",
     "created_at", "rwp_classification", "rwp_rationale"}

\* the columns a write function is named for
Named(op) ==
    CASE op = "update_candidate_notes" -> {"recruiter_notes", "fadv_change_flag"}
      [] op = "clear_fadv_flag" -> {"fadv_change_flag"}
      [] op = "update_candidate_status" -> {"status"}
      [] op = "update_gcic" -> {"gcic_uploaded", "gcic_upload_date"}
      [] op = "update_mec" -> {"mec_uploaded", "mec_upload_date"}
      [] op = "update_fedex_id" -> {"fedex_id"}

\* the columns of load_candidates that show the columns a write is named for,
\* and updated_at
Shown(op) ==
    CASE op = "update_candidate_notes" -> {"recruiter_notes", "flag", "updated"}
      [] op = "clear_fadv_flag" -> {"flag", "updated"}
      [] op = "update_candidate_status" -> {"status", "updated"}
      [] op = "update_gcic" -> {"g", "g_date", "updated"}
      [] op = "update_mec" -> {"m", "m_date", "updated"}
      [] op = "update_fedex_id" -> {"fedex_id", "updated"}

\* the row of a snapshot for a record
RowOf(snapshot, id) ==
    snapshot[CHOOSE i \in 1..Len(snapshot) : snapshot[i].id = id]

\* the snapshot row shows the value the call wrote
ShowsWritten(row, c) ==
    CASE c.op = "update_candidate_notes" ->
             row.recruiter_notes = c.text /\ row.flag = 0
      [] c.op = "clear_fadv_flag" -> row.flag = 0
      [] c.op = "update_candidate_status" -> row.status = c.status
      [] c.op = "update_gcic" -> Bool(row.g) = c.checked
      [] c.op = "update_mec" -> Bool(row.m) = c.checked
      [] c.op = "update_fedex_id" -> row.fedex_id = c.text

\* C9: a write call changes, in the table, only the columns it is named for
\* and updated_at (which does not go back) of the one record; the snapshot
\* loaded after it shows the written value, the other columns of that record
\* and all of every other record as the snapshot loaded before it.
C9_Frame ==
    \A k \in 1..Len(wlog) :
        LET e == wlog[k]
            id == e.call.id
            loaded_before == load_candidates(e.before)
            loaded_after == load_candidates(e.after)
        IN /\ DOMAIN e.after = DOMAIN e.before
           /\ \A other \in DOMAIN e.before \ {id} :
                  /\ e.after[other] = e.before[other]
                  /\ RowOf(loaded_after, other) = RowOf(loaded_before, other)
           /\ \A col \in Columns \ (Named(e.call.op) \cup {"updated_at"}) :
                  e.after[id][col] = e.before[id][col]
           /\ e.after[id].updated_at >= e.before[id].updated_at
           /\ ShowsWritten(RowOf(loaded_after, id), e.call)
           /\ \A col \in DOMAIN RowOf(loaded_after, id) \ Shown(e.call.op) :
                  RowOf(loaded_after, id)[col] = RowOf(loaded_before, id)[col]

\* a FedEx ID write on a table of two records, the written record flagged
C9_Witness ==
    \E k \in 1..Len(wlog) :
        /\ wlog[k].call.op = "update_fedex_id"
        /\ Cardinality(DOMAIN wlog[k].before) = 2
        /\ wlog[k].before[wlog[k].call.id].fadv_change_flag = 1
        /\ wlog[k].after[wlog[k].call.id].fedex_id = Val(wlog[k].call.text)

\* C10: a call takes the flag of a record from set to cleared only if it is
\* clear_fadv_flag, the notes left as they were, or a notes write of a text
\* other than the stored notes; no call sets a flag.
C10_FlagCleared ==
    \A k \in 1..Len(wlog) :
        LET e == wlog[k]
        IN \A id \in DOMAIN e.before :
              /\ (e.before[id].fadv_change_flag = 1
                      /\ e.after[id].fadv_change_flag = 0) =>
                    /\ id = e.call.id
                    /\ \/ /\ e.call.op = "clear_fadv_flag"
                          /\ e.after[id].recruiter_notes
                                 = e.before[id].recruiter_notes
                       \/ /\ e.call.op = "update_candidate_notes"
                          /\ e.call.text
                                 # Coalesce(e.before[id].recruiter_notes, Empty)
              /\ e.before[id].fadv_change_flag = 0 =>
                    e.after[id].fadv_change_flag = 0

\* the column of the table a write function stores an editable column in, as
\* the table shows it
StoredCell(st, id, col) ==
    CASE col = "Notes" -> Coalesce(st[id].recruiter_notes, Empty)
      [] col = "FedEx ID" -> Coalesce(st[id].fedex_id, Empty)
      [] col = "G" -> Bool(st[id].gcic_uploaded)
      [] col = "M" -> Bool(st[id].mec_uploaded)

\* the value the user left in a cell, normalized
EditedCell(i, col) ==
    CASE col = "Notes" -> Normal(edited_df[i].Notes)
      [] col = "FedEx ID" -> Normal(edited_df[i].FedEx)
      [] col = "G" -> edited_df[i].G
      [] col = "M" -> edited_df[i].M

\* the table holds a record whose notes another recruiter saved
OtherRecruiterWrote(st) ==
    \E id \in DOMAIN st :
        st[id].recruiter_notes = Val(LongNotes) /\ st[id].updated_at > 0

\* C11: a pass submitted after another recruiter wrote the table writes only
\* cells its user edited: a field the user changed holds the user's value
\* after the pass, and every other editable field of every visible record
\* holds what the table held when the pass began (the other recruiter's value).
C11_NoClobber ==
    (wlog # <<>> /\ BatchLog = wlog /\ OtherRecruiterWrote(wlog[1].before)) =>
        /\ \A k \in 1..Len(wlog) :
               \E i \in 1..Len(edited_df) : \E col \in EditableColumns :
                   /\ filtered_df[i].id = wlog[k].call.id
                   /\ OpOf(col) = wlog[k].call.op
                   /\ Touched(i, col)
        /\ \A i \in 1..Len(edited_df) : \A col \in EditableColumns :
               LET id == filtered_df[i].id
               IN StoredCell(wlog[Len(wlog)].after, id, col)
                      = IF UserChanged(i, col) THEN EditedCell(i, col)
                        ELSE StoredCell(wlog[1].before, id, col)

\* the pass attempted a write for the cell (one that committed or one that
\* raised)
Attempted(i, col) ==
    \E k \in 1..Len(wlog) :
        /\ wlog[k].site = "batch"
        /\ wlog[k].call.id = filtered_df[i].id
        /\ wlog[k].call.op = OpOf(col)

\* C12: in a pass every cell the user changed gets a write attempt, also when
\* a write of the pass fails; the writes that committed stay in the table, no
\* call is issued twice, and the pass reports changes only when every changed
\* cell got its attempt.
C12_PartialFailure ==
    /\ \A i \in 1..Len(edited_df) : \A col \in EditableColumns :
           UserChanged(i, col) => Attempted(i, col)
    /\ wlog # <<>> => store = wlog[Len(wlog)].after
    /\ \A k \in 1..Len(wlog) :
           /\ k > 1 => wlog[k].before = wlog[k - 1].after
           /\ wlog[k].outcome = "raised" => wlog[k].after = wlog[k].before
           /\ \A j \in 1..Len(wlog) : wlog[j].call = wlog[k].call => j = k
    /\ (changes_made /\ raised = "") =>
           \A i \in 1..Len(edited_df) : \A col \in EditableColumns :
               UserChanged(i, col) => Attempted(i, col)


\* C13: a write that fails (it did not commit) leaves the table as it found
\* it and reaches its caller as an exception, so that the caller does not
\* take it for a write that succeeded.
C13_FailedWrite ==
    \A k \in 1..Len(wlog) :
        wlog[k].outcome # "committed" =>
            /\ wlog[k].after = wlog[k].before
            /\ wlog[k].outcome = "raised"
            /\ k = Len(wlog) => (raised # "" /\ ~changes_made)


\* the recruiter view has run (the first run of a session clears the
\* pending rerun it starts with)
RecruiterRan == ~rerun

\* the client view has run as far as its load
ClientLoaded ==
    client_page \notin {"", "no client specified", "unknown client"}

\* C14: with no store connection the load of either view gives no rows and
\* the view ends its run without an exception: the recruiter view with an
\* empty snapshot, the client view in its no-candidates state.
C14_StoreUnavailable ==
    ~engine =>
        /\ RecruiterRan =>
               (df = <<>> /\ filtered_df = <<>> /\ raised = "")
        /\ ClientLoaded =>
               /\ client_page = "no candidates found"
               /\ client_df = <<>>
               /\ client_filtered_df = <<>>


\* a loaded row of the client view is the row of this record of the table
LoadedFrom(row, rec) ==
    /\ row.created_at = rec.created_at
    /\ row.first_name = rec.first_name
    /\ row.last_name = rec.last_name
    /\ row.email = Coalesce(rec.email, Empty)
    /\ row.phone = Coalesce(rec.phone, Empty)

\* a displayed row of the client view shows this record of the table
DisplayedFrom(row, rec) ==
    /\ row.First_Name = rec.first_name
    /\ row.Last_Name = rec.last_name
    /\ row.Email = Coalesce(rec.email, Empty)
    /\ row.Phone = Coalesce(rec.phone, Empty)
    /\ row.FedEx_ID = Coalesce(rec.fedex_id, Empty)

\* the records of the table that belong to the requested client
OwnRecords == {id \in DOMAIN store : <<store[id].client_id>> = client_id}

\* C15: every row the client view loaded and every row it displays, under
\* any selection of its filters, is the row of a record whose client_id is
\* the requested one, and it loaded no more rows than that client has.
C15_ClientIsolation ==
    client_queried =>
        /\ \A i \in 1..Len(client_df) :
               \E id \in OwnRecords : LoadedFrom(client_df[i], store[id])
        /\ \A i \in 1..Len(client_filtered_df) :
               \E id \in OwnRecords :
                   DisplayedFrom(client_filtered_df[i], store[id])
        /\ Len(client_df) = Cardinality(OwnRecords)
        /\ Len(client_filtered_df) <= Len(client_df)

\* a client with candidates is shown a filtered table while the store also
\* holds a record of another client
C15_Witness ==
    /\ client_queried
    /\ client_page = "candidates"
    /\ client_pred.form_filter # "All"
    /\ client_filtered_df # <<>>
    /\ DOMAIN store \ OwnRecords # {}

\* C16: a request without a client id, or with one the registry does not
\* hold, ends in the no-client or unknown-client state, without a query and
\* with no candidate row, whatever the store holds.
C16_UnknownClient ==
    client_page # "" =>
        /\ (client_id = Null \/ client_id = Val(Empty)) =>
               /\ client_page = "no client specified"
               /\ ~client_queried
               /\ client_df = <<>> /\ client_filtered_df = <<>>
        /\ (client_id # Null /\ client_id # Val(Empty)
               /\ client_id[1] \notin registry) =>
               /\ client_page = "unknown client"
               /\ ~client_queried
               /\ client_df = <<>> /\ client_filtered_df = <<>>

\* the view was requested for an id that is in no registry while the store
\* holds records with that client_id and a database is configured
C16_Witness ==
    /\ client_page = "unknown client"
    /\ engine
    /\ client_id = Val(Fdx)
    /\ OwnRecords # {}


\* the rows of the table shown whose score counts for the average
Scored == {i \in 1..Len(filtered_df) : filtered_df[i].rwp_score > 0}

RECURSIVE ScoreSum(_)
ScoreSum(rows) ==
    IF rows = {} THEN 0
    ELSE LET i == CHOOSE j \in rows : TRUE
         IN filtered_df[i].rwp_score + ScoreSum(rows \ {i})

\* the number a text of digits stands for
RECURSIVE DigitsValue(_)
DigitsValue(text) ==
    IF text = <<>> THEN 0
    ELSE 10 * DigitsValue(SubSeq(text, 1, Len(text) - 1))
           + (CHOOSE d \in 0..9 : Digits[d + 1] = text[Len(text)])

\* the tenths a text "d.d" stands for
ShownTenths(text) ==
    DigitsValue(SelectSeq(text, LAMBDA ch : ch # "."))

\* C17: the average shown is the sum of the scores above 0 of the filtered
\* rows over the number of those rows (to the one decimal shown), whatever
\* the number of filtered rows; with no score above 0 it is 'N/A'.
C17_AverageRwp ==
    IF Scored = {} THEN avg_rwp = NotAvailable
    ELSE /\ avg_rwp # NotAvailable
         /\ Len(avg_rwp) >= 3 /\ avg_rwp[Len(avg_rwp) - 1] = "."
         /\ \E n \in {Cardinality(Scored)} :
            \E off \in {10 * ScoreSum(Scored) - ShownTenths(avg_rwp) * n} :
                2 * off <= n /\ -2 * off <= n

\* two rows are shown, one with score 0 and one with a score above 0
C17_Witness ==
    /\ Len(filtered_df) = 2
    /\ Cardinality(Scored) = 1
    /\ avg_rwp # NotAvailable


\* the calls of a run that the detail view issued
DetailEntries(log) == SelectSeq(log, LAMBDA e : e.site = "detail")

\* the user changed a cell of the table in the run
TableEdited(display, edited) == edited # display

\* One step of the session: a run in which the detail view wrote issued one
\* detail-view call, which was the last call of the run, and ended in
\* st.rerun(); the step after an st.rerun() loads the whole snapshot from the
\* table as it then is; a run in which the user edited the table and the
\* diff saved changes ends without st.rerun(), its snapshot the one loaded
\* before its writes.
OrderedStep ==
    /\ (wlog' # wlog /\ DetailEntries(wlog') # <<>>) =>
           /\ Len(DetailEntries(wlog')) = 1
           /\ wlog'[Len(wlog')].site = "detail"
           /\ wlog'[Len(wlog')].call.id = selected_candidate
           /\ store' = wlog'[Len(wlog')].after
           /\ rerun'
    /\ rerun =>
           /\ df' = load_candidates(store)
           /\ DetailEntries(wlog') = <<>>
    /\ (wlog' # wlog /\ TableEdited(display_df', edited_df') /\ changes_made') =>
           /\ ~rerun'
           /\ df' = load_candidates(store)
           /\ df' # load_candidates(store')

\* C18: a detail-view action that writes issues one write and is followed at
\* once by a load of the whole snapshot, while a table-edit pass that saved
\* changes is followed by no load until the user acts.
C18_Ordering == [][OrderedStep]_vars

\* the detail view has just written the G bit and st.rerun() is pending
C18_Witness ==
    /\ rerun
    /\ Len(DetailEntries(wlog)) = 1
    /\ wlog[Len(wlog)].call.op = "update_gcic"
    /\ store # wlog[Len(wlog)].before


\* the text the selector shows for a row
SelectorName(r) == r.first_name \o <<" ">> \o r.last_name

\* One step of the session: a candidate newly selected is a row of the
\* table shown before which no row has the same name, and the detail view
\* opens for it; every call the detail view issues is for the selected
\* candidate.
TargetedStep ==
    /\ (selected_candidate' # selected_candidate /\ selected_candidate' # None) =>
           /\ show_detail'
           /\ \E i \in 1..Len(filtered_df') :
                  /\ filtered_df'[i].id = selected_candidate'
                  /\ \A j \in 1..(i - 1) :
                         SelectorName(filtered_df'[j]) # SelectorName(filtered_df'[i])
    /\ wlog' # wlog =>
           \A k \in 1..Len(wlog') :
               wlog'[k].site = "detail" =>
                   /\ wlog'[k].call.id = selected_candidate
                   /\ wlog'[k].call.id = selected_candidate'

\* C19: "View Details" selects the first record, in the order of the table
\* shown, with the chosen name, a later record of the same name is never
\* selected, and the writes of the detail view go to the selected record.
C19_Targeting == [][TargetedStep]_vars

\* two rows of the same name are shown, the first is the selected
\* candidate and the detail view has written to it
C19_Witness ==
    /\ Len(filtered_df) = 2
    /\ SelectorName(filtered_df[1]) = SelectorName(filtered_df[2])
    /\ show_detail
    /\ selected_candidate = filtered_df[1].id
    /\ \E k \in 1..Len(wlog) :
           wlog[k].site = "detail" /\ wlog[k].call.id = selected_candidate

====
